---- MODULE Spec2Model ----
(***************************************************************************)
(* Model of checkov's CloudFormation check CKV_AWS_32                      *)
(* (checkov/cloudformation/checks/resource/aws/ECRPolicy.py):              *)
(* ECRPolicy.scan_resource_conf and                                        *)
(* ECRPolicy.check_for_constrained_condition, run on the module-level      *)
(* instance `check`.                                                       *)
(*                                                                         *)
(* Python objects are tagged pairs <<kind, val>>:                          *)
(*   none  val = <<>>            bool  val \in BOOLEAN                     *)
(*   int   val \in Int           str   val = sequence of characters        *)
(*   list  val = sequence of objects                                       *)
(*   dict  val = sequence of <<key characters, object>> in insertion order *)
(* Strings are sequences of one-character strings, so that iterating a     *)
(* str, the substring test of `in`, json.loads and re.match are computed   *)
(* as Python computes them.                                                *)
(***************************************************************************)
EXTENDS Integers, Sequences, FiniteSets, TLC

VARIABLES
    evaluated_keys,  \* check.evaluated_keys, the one field of the shared instance
    pc,              \* per caller: "idle", "called" or "scanning" (after line 28)
    conf,            \* per caller: the argument of its last call
    result,          \* per caller: "NONE" while a call runs, else the CheckResult or RAISED
    log,             \* per caller: levels of the log records its last call emitted
    prev_result,     \* per caller: the result of the call before its last call
    cond_arg,        \* argument of a direct call of check_for_constrained_condition
    cond_ret         \* what that call produced

vars == <<evaluated_keys, pc, conf, result, log, prev_result, cond_arg, cond_ret>>

---------------------------------------------------------------------------
(* Python objects *)

Obj(k, v) == <<k, v>>

Kind(x) == x[1]

Val(x) == x[2]

None == Obj("none", <<>>)

Bool(b) == Obj("bool", b)

Num(n) == Obj("int", n)

Str(chars) == Obj("str", chars)

List(items) == Obj("list", items)

Dict(pairs) == Obj("dict", pairs)

(* Key and literal strings used by the check, as character sequences *)
K_Properties == <<"P","r","o","p","e","r","t","i","e","s">>

K_RepositoryPolicyText ==
    <<"R","e","p","o","s","i","t","o","r","y","P","o","l","i","c","y","T","e","x","t">>

K_Statement == <<"S","t","a","t","e","m","e","n","t">>

K_Principal == <<"P","r","i","n","c","i","p","a","l">>

K_AWS == <<"A","W","S">>

K_Condition == <<"C","o","n","d","i","t","i","o","n">>

K_StringEquals == <<"S","t","r","i","n","g","E","q","u","a","l","s">>

K_ForAllValues == <<"F","o","r","A","l","l","V","a","l","u","e","s",":">> \o K_StringEquals

K_ForAnyValue == <<"F","o","r","A","n","y","V","a","l","u","e",":">> \o K_StringEquals

K_PrincipalOrgID == <<"a","w","s",":","P","r","i","n","c","i","p","a","l","O","r","g","I","D">>

Star == <<"*">>

(* bool(x): Python truth value, as used by `not x` *)
Truthy(x) ==
    CASE Kind(x) = "none" -> FALSE
      [] Kind(x) = "bool" -> Val(x)
      [] Kind(x) = "int" -> Val(x) # 0
      [] OTHER -> Len(Val(x)) > 0

(* isinstance(x, dict) / isinstance(x, list) / isinstance(x, str) *)
IsDict(x) == Kind(x) = "dict"

IsList(x) == Kind(x) = "list"

IsStr(x) == Kind(x) = "str"

(* k in d, for a dict d *)
HasKey(d, k) == \E i \in 1..Len(Val(d)) : Val(d)[i][1] = k

(* d[k], for a dict d that has the key k *)
GetItem(d, k) == Val(d)[CHOOSE i \in 1..Len(Val(d)) : Val(d)[i][1] = k][2]

(* d.get(k) *)
DictGet(d, k) == IF HasKey(d, k) THEN GetItem(d, k) ELSE None

(* d[k] = v on a dict under construction: a repeated key keeps its position *)
DictSet(pairs, k, v) ==
    IF \E i \in 1..Len(pairs) : pairs[i][1] = k
    THEN [i \in 1..Len(pairs) |-> IF pairs[i][1] = k THEN <<k, v>> ELSE pairs[i]]
    ELSE Append(pairs, <<k, v>>)

(* sub in s, for two strings: sub occurs in s as a substring *)
IsSubstring(sub, s) ==
    \E i \in 1..(Len(s) - Len(sub) + 1) : SubSeq(s, i, i + Len(sub) - 1) = sub

(* Whether `k in x` is defined (x is a container); otherwise TypeError *)
SupportsIn(x) == Kind(x) \in {"dict", "list", "str"}

(* k in x for a str k: key of a dict, element of a list, substring of a str *)
In(k, x) ==
    CASE Kind(x) = "dict" -> HasKey(x, k)
      [] Kind(x) = "list" -> \E i \in 1..Len(Val(x)) : Val(x)[i] = Str(k)
      [] Kind(x) = "str" -> IsSubstring(k, Val(x))
      [] OTHER -> FALSE

(* Whether iter(x) is defined; otherwise enumerate(x) raises TypeError *)
Iterable(x) == Kind(x) \in {"dict", "list", "str"}

(* list(x): a str yields its characters, a list its elements, a dict its keys *)
Items(x) ==
    CASE Kind(x) = "str" -> [i \in 1..Len(Val(x)) |-> Str(<<Val(x)[i]>>)]
      [] Kind(x) = "list" -> Val(x)
      [] Kind(x) = "dict" -> [i \in 1..Len(Val(x)) |-> Str(Val(x)[i][1])]
      [] OTHER -> <<>>

---------------------------------------------------------------------------
(* json.loads: objects, arrays, strings without escapes, integers, null,   *)
(* true, false, and blanks between tokens.                                 *)

ParseFail == [ok |-> FALSE, val |-> None, pos |-> 0]

ParseOk(v, p) == [ok |-> TRUE, val |-> v, pos |-> p]

Digits == <<"0","1","2","3","4","5","6","7","8","9">>

IsDigit(c) == \E d \in 1..10 : Digits[d] = c

DigitVal(c) == (CHOOSE d \in 1..10 : Digits[d] = c) - 1

RECURSIVE SkipWs(_, _)
SkipWs(s, i) == IF i <= Len(s) /\ s[i] = " " THEN SkipWs(s, i + 1) ELSE i

(* Index of the quote that closes a string whose body starts at i; 0 if none *)
RECURSIVE CloseQuote(_, _)
CloseQuote(s, i) ==
    IF i > Len(s) THEN 0
    ELSE IF s[i] = "\"" THEN i
    ELSE CloseQuote(s, i + 1)

ParseString(s, i) ==
    LET q == CloseQuote(s, i + 1)
    IN  IF q = 0 THEN ParseFail ELSE ParseOk(Str(SubSeq(s, i + 1, q - 1)), q + 1)

(* Whether the word w is the text of s at position i *)
WordAt(s, i, w) == i + Len(w) - 1 <= Len(s) /\ SubSeq(s, i, i + Len(w) - 1) = w

RECURSIVE ParseDigits(_, _, _)
ParseDigits(s, i, acc) ==
    IF i <= Len(s) /\ IsDigit(s[i])
    THEN ParseDigits(s, i + 1, 10 * acc + DigitVal(s[i]))
    ELSE ParseOk(Num(acc), i)

(* JSON int: "0" or a nonzero digit followed by digits, optionally negated *)
ParseNumber(s, i) ==
    LET neg == s[i] = "-"
        j == IF neg THEN i + 1 ELSE i
    IN  IF j > Len(s) \/ ~IsDigit(s[j]) THEN ParseFail
        ELSE LET r == IF s[j] = "0" THEN ParseOk(Num(0), j + 1)
                      ELSE ParseDigits(s, j, 0)
             IN  IF neg THEN ParseOk(Num(0 - Val(r.val)), r.pos) ELSE r

RECURSIVE ParseValue(_, _), ParseElems(_, _, _), ParseMembers(_, _, _)
ParseValue(s, i) ==
    LET j == SkipWs(s, i)
    IN  IF j > Len(s) THEN ParseFail
        ELSE IF s[j] = "{"
             THEN LET k == SkipWs(s, j + 1)
                  IN  IF k <= Len(s) /\ s[k] = "}" THEN ParseOk(Dict(<<>>), k + 1)
                      ELSE ParseMembers(s, k, <<>>)
        ELSE IF s[j] = "["
             THEN LET k == SkipWs(s, j + 1)
                  IN  IF k <= Len(s) /\ s[k] = "]" THEN ParseOk(List(<<>>), k + 1)
                      ELSE ParseElems(s, k, <<>>)
        ELSE IF s[j] = "\"" THEN ParseString(s, j)
        ELSE IF WordAt(s, j, <<"n","u","l","l">>) THEN ParseOk(None, j + 4)
        ELSE IF WordAt(s, j, <<"t","r","u","e">>) THEN ParseOk(Bool(TRUE), j + 4)
        ELSE IF WordAt(s, j, <<"f","a","l","s","e">>) THEN ParseOk(Bool(FALSE), j + 5)
        ELSE ParseNumber(s, j)

ParseElems(s, i, acc) ==
    LET r == ParseValue(s, i)
        k == SkipWs(s, r.pos)
    IN  IF ~r.ok \/ k > Len(s) THEN ParseFail
        ELSE IF s[k] = "," THEN ParseElems(s, k + 1, Append(acc, r.val))
        ELSE IF s[k] = "]" THEN ParseOk(List(Append(acc, r.val)), k + 1)
        ELSE ParseFail

ParseMembers(s, i, acc) ==
    LET j == SkipWs(s, i)
        key == IF j <= Len(s) /\ s[j] = "\"" THEN ParseString(s, j) ELSE ParseFail
        c == SkipWs(s, key.pos)
        r == IF key.ok /\ c <= Len(s) /\ s[c] = ":" THEN ParseValue(s, c + 1) ELSE ParseFail
        k == SkipWs(s, r.pos)
    IN  IF ~r.ok \/ k > Len(s) THEN ParseFail
        ELSE IF s[k] = "," THEN ParseMembers(s, k + 1, DictSet(acc, Val(key.val), r.val))
        ELSE IF s[k] = "}" THEN ParseOk(Dict(DictSet(acc, Val(key.val), r.val)), k + 1)
        ELSE ParseFail

(* json.loads(s): ok = FALSE stands for json.decoder.JSONDecodeError *)
json_loads(s) ==
    LET r == ParseValue(s, 1)
    IN  IF r.ok /\ SkipWs(s, r.pos) = Len(s) + 1 THEN r ELSE ParseFail

(* re.match(SLS_DEFAULT_VAR_PATTERN, s), pattern \${([^{}]+?)} anchored at   *)
(* the start of s: "${", one or more characters that are not braces, "}"   *)
re_match_SLS_DEFAULT_VAR_PATTERN(s) ==
    /\ Len(s) >= 4
    /\ s[1] = "$"
    /\ s[2] = "{"
    /\ \E e \in 4..Len(s) :
          /\ s[e] = "}"
          /\ \A m \in 3..(e - 1) : s[m] \notin {"{", "}"}

---------------------------------------------------------------------------
(* ECRPolicy *)

PASSED == "PASSED"

FAILED == "FAILED"

UNKNOWN == "UNKNOWN"

(* Outcome of a call that raised instead of returning a CheckResult *)
RAISED == "RAISED"

NoExc == "none"

(* self.evaluated_keys = ["Properties/RepositoryPolicyText/Statement"] *)
DefaultKeys == <<"Properties/RepositoryPolicyText/Statement">>

(* What a call produces: the returned CheckResult (or RAISED with the     *)
(* exception type), the value it leaves in self.evaluated_keys, and the    *)
(* levels of the log records it emitted.                                   *)
Outcome(v, k, l, e) == [verdict |-> v, keys |-> k, log |-> l, exc |-> e]

(* What check_for_constrained_condition produces: [exc, ret], with         *)
(* exc # NoExc when the call raises                                        *)
Returns(b) == [exc |-> NoExc, ret |-> b]

Raises(e) == [exc |-> e, ret |-> FALSE]

(* condition[key] after `key in condition` was true *)
Subscript(condition, key) ==
    IF IsDict(condition) THEN Returns(GetItem(condition, key)) ELSE Raises("TypeError")

(* check_for_constrained_condition with `if` for each `elif`: the last      *)
(* operator key present decides                                             *)
check_for_constrained_condition_last(statement) ==
    IF HasKey(statement, K_Condition)
    THEN LET condition == GetItem(statement, K_Condition)
             string_equals ==
                 IF In(K_ForAnyValue, condition) THEN Subscript(condition, K_ForAnyValue)
                 ELSE IF In(K_ForAllValues, condition) THEN Subscript(condition, K_ForAllValues)
                 ELSE IF In(K_StringEquals, condition) THEN Subscript(condition, K_StringEquals)
                 ELSE Returns(None)
         IN  IF ~SupportsIn(condition) THEN Raises("TypeError")
             ELSE IF string_equals.exc # NoExc THEN Raises(string_equals.exc)
             ELSE IF IsDict(string_equals.ret) /\ HasKey(string_equals.ret, K_PrincipalOrgID)
                  THEN Returns(TRUE)
                  ELSE Returns(FALSE)
    ELSE Returns(FALSE)

(* check_for_constrained_condition(statement), for a statement that is a   *)
(* dict: `in` raises TypeError on None and int, is the membership test of  *)
(* a list and the substring test of a str; the subscript raises TypeError  *)
(* on a list and a str                                                     *)
check_for_constrained_condition(statement) ==
    IF HasKey(statement, K_Condition)
    THEN LET condition == GetItem(statement, K_Condition)
             string_equals ==
                 IF In(K_StringEquals, condition) THEN Subscript(condition, K_StringEquals)
                 ELSE IF In(K_ForAllValues, condition) THEN Subscript(condition, K_ForAllValues)
                 ELSE IF In(K_ForAnyValue, condition) THEN Subscript(condition, K_ForAnyValue)
                 ELSE Returns(None)
         IN  IF ~SupportsIn(condition) THEN Raises("TypeError")
             ELSE IF string_equals.exc # NoExc THEN Raises(string_equals.exc)
             ELSE IF IsDict(string_equals.ret) /\ HasKey(string_equals.ret, K_PrincipalOrgID)
                  THEN Returns(TRUE)
                  ELSE Returns(FALSE)
    ELSE Returns(FALSE)

(* FailedKeys without the isinstance(principal_block, list) test *)
FailedKeys_always_indexed(principal_block, evaluated_key, principal_index) ==
    <<evaluated_key \o "/[" \o ToString(principal_index) \o "]/">>

(* f"{evaluated_key}/[{principal_index}]/" for a list, f"{evaluated_key}" otherwise *)
FailedKeys(principal_block, evaluated_key, principal_index) ==
    IF IsList(principal_block)
    THEN <<evaluated_key \o "/[" \o ToString(principal_index) \o "]/">>
    ELSE <<evaluated_key>>

(* for principal_index, principal in enumerate(principal_block): ...      *)
(* "CONTINUE" when the loop ends without returning                         *)
RECURSIVE scan_principals(_, _, _, _, _)
scan_principals(statement, principal_block, evaluated_key, principal_index, keys) ==
    LET items == Items(principal_block)
    IN  IF principal_index >= Len(items) THEN Outcome("CONTINUE", keys, <<>>, NoExc)
        ELSE IF items[principal_index + 1] = Str(Star)
             THEN LET constrained == check_for_constrained_condition(statement)
                  IN  IF constrained.exc # NoExc
                      THEN Outcome(RAISED, keys, <<>>, constrained.exc)
                      ELSE IF ~constrained.ret
                           THEN Outcome(FAILED,
                                        FailedKeys(principal_block, evaluated_key, principal_index),
                                        <<>>, NoExc)
                           ELSE scan_principals(statement, principal_block, evaluated_key,
                                                principal_index + 1, keys)
             ELSE scan_principals(statement, principal_block, evaluated_key,
                                  principal_index + 1, keys)

(* Body of the statement loop for one statement *)
scan_statement(statement, statement_index, keys) ==
    IF ~IsDict(statement) THEN Outcome(RAISED, keys, <<>>, "AttributeError")
    ELSE IF ~HasKey(statement, K_Principal) THEN Outcome("CONTINUE", keys, <<>>, NoExc)
    ELSE LET principal == GetItem(statement, K_Principal)
             base == "Properties/RepositoryPolicyText/Statement/["
                         \o ToString(statement_index) \o "]/Principal"
             aws == IsDict(principal) /\ HasKey(principal, K_AWS)
             principal_block == IF aws THEN GetItem(principal, K_AWS) ELSE principal
             evaluated_key == IF aws THEN base \o "/AWS" ELSE base
         IN  IF ~Iterable(principal_block) THEN Outcome(RAISED, keys, <<>>, "TypeError")
             ELSE scan_principals(statement, principal_block, evaluated_key, 0, keys)

(* for statement_index, statement in enumerate(policy_text["Statement"]) *)
RECURSIVE scan_statements(_, _, _)
scan_statements(statements, statement_index, keys) ==
    IF statement_index >= Len(statements) THEN Outcome(PASSED, keys, <<>>, NoExc)
    ELSE LET r == scan_statement(statements[statement_index + 1], statement_index, keys)
         IN  IF r.verdict = "CONTINUE"
             THEN scan_statements(statements, statement_index + 1, keys)
             ELSE r

(* scan_policy that takes a Statement mapping for a list of one statement *)
scan_policy_single_statement(policy_text, keys) ==
    IF ~IsDict(policy_text) THEN Outcome(RAISED, keys, <<>>, "AttributeError")
    ELSE IF HasKey(policy_text, K_Statement) /\ IsList(GetItem(policy_text, K_Statement))
         THEN scan_statements(Val(GetItem(policy_text, K_Statement)), 0, keys)
         ELSE IF HasKey(policy_text, K_Statement) /\ IsDict(GetItem(policy_text, K_Statement))
              THEN scan_statements(<<GetItem(policy_text, K_Statement)>>, 0, keys)
              ELSE Outcome(PASSED, keys, <<>>, NoExc)

(* Lines 48-63: the scan of the working policy document *)
scan_policy(policy_text, keys) ==
    IF ~IsDict(policy_text) THEN Outcome(RAISED, keys, <<>>, "AttributeError")
    ELSE IF HasKey(policy_text, K_Statement) /\ IsList(GetItem(policy_text, K_Statement))
         THEN scan_statements(Val(GetItem(policy_text, K_Statement)), 0, keys)
         ELSE Outcome(PASSED, keys, <<>>, NoExc)

(* scan_resource_conf without its first assignment *)
reset_evaluated_keys_missing(self_evaluated_keys) == self_evaluated_keys

(* Line 28: the assignment that opens scan_resource_conf *)
reset_evaluated_keys(self_evaluated_keys) == DefaultKeys

(* The handler without the re.match branch *)
decode_error_no_match(text, keys) == Outcome(UNKNOWN, keys, <<"ERROR">>, NoExc)

(* Lines 38-47: the handler of json.decoder.JSONDecodeError *)
decode_error(text, keys) ==
    IF re_match_SLS_DEFAULT_VAR_PATTERN(text)
    THEN Outcome(UNKNOWN, keys, <<"INFO">>, NoExc)
    ELSE Outcome(UNKNOWN, keys, <<"ERROR">>, NoExc)

(* Lines 29-63, started with self.evaluated_keys = keys *)
scan_body(config, keys) ==
    LET properties == DictGet(config, K_Properties)
    IN  IF ~Truthy(properties) \/ ~IsDict(properties) THEN Outcome(PASSED, keys, <<>>, NoExc)
        ELSE LET policy_text == DictGet(properties, K_RepositoryPolicyText)
             IN  IF ~Truthy(policy_text) THEN Outcome(PASSED, keys, <<>>, NoExc)
                 ELSE IF IsStr(policy_text)
                      THEN LET parsed == json_loads(Val(policy_text))
                           IN  IF ~parsed.ok
                               THEN decode_error(Val(policy_text), keys)
                               ELSE scan_policy(parsed.val, keys)
                      ELSE scan_policy(policy_text, keys)

(* scan_resource_conf(conf) on an instance whose evaluated_keys is self_evaluated_keys *)
scan_resource_conf(config, self_evaluated_keys) ==
    scan_body(config, reset_evaluated_keys(self_evaluated_keys))

---------------------------------------------------------------------------
(* Input configurations *)

(* Longest Principal list in a generated statement *)
MaxPrincipals == 2

(* Longest Statement list built from CoreStatements *)
MaxStatements == 2

K_Service == <<"S","e","r","v","i","c","e">>

K_StringLike == <<"S","t","r","i","n","g","L","i","k","e">>

K_SourceIp == <<"a","w","s",":","S","o","u","r","c","e","I","p">>

K_Version == <<"V","e","r","s","i","o","n">>

K_Effect == <<"E","f","f","e","c","t">>

Account == <<"1","1","1">>

RoleGlob == <<"r","o","l","e","/","*">>

OrgId == <<"o","-","x">>

(* json.dumps(x) with the default separators ", " and ": " *)
RECURSIVE Dumps(_), DumpsItems(_, _), DumpsPairs(_, _)
Dumps(x) ==
    CASE Kind(x) = "none" -> <<"n","u","l","l">>
      [] Kind(x) = "bool" -> IF Val(x) THEN <<"t","r","u","e">> ELSE <<"f","a","l","s","e">>
      [] Kind(x) = "int" -> <<Digits[Val(x) + 1]>>
      [] Kind(x) = "str" -> <<"\"">> \o Val(x) \o <<"\"">>
      [] Kind(x) = "list" -> <<"[">> \o DumpsItems(Val(x), 1) \o <<"]">>
      [] Kind(x) = "dict" -> <<"{">> \o DumpsPairs(Val(x), 1) \o <<"}">>

DumpsItems(items, i) ==
    IF i > Len(items) THEN <<>>
    ELSE Dumps(items[i]) \o (IF i < Len(items) THEN <<",", " ">> ELSE <<>>)
             \o DumpsItems(items, i + 1)

DumpsPairs(pairs, i) ==
    IF i > Len(pairs) THEN <<>>
    ELSE <<"\"">> \o pairs[i][1] \o <<"\"", ":", " ">> \o Dumps(pairs[i][2])
             \o (IF i < Len(pairs) THEN <<",", " ">> ELSE <<>>)
             \o DumpsPairs(pairs, i + 1)

(* Sequences over S of length at most n *)
RECURSIVE SeqsUpTo(_, _)
SeqsUpTo(S, n) ==
    IF n = 0 THEN {<<>>}
    ELSE LET shorter == SeqsUpTo(S, n - 1)
         IN  shorter \cup {Append(q, x) : q \in {r \in shorter : Len(r) = n - 1}, x \in S}

(* A mapping with the given optional fields: pairs whose value is Absent are left out *)
Absent == Obj("absent", <<>>)

MkDict(pairs) == Dict(SelectSeq(pairs, LAMBDA p : p[2] # Absent))

PrincipalEntries == {Str(Account), Str(Star)}

(* A principal block: a bare string or a list of strings *)
PrincipalBlocks ==
    PrincipalEntries
      \cup {List(q) : q \in SeqsUpTo(PrincipalEntries, MaxPrincipals)}
      \cup {Str(RoleGlob), List(<<Str(RoleGlob)>>), Str(<<>>)}

(* Values of a statement's Principal field *)
Principals ==
    PrincipalBlocks
      \cup {Dict(<<<<K_AWS, b>>>>) : b \in PrincipalBlocks}
      \cup { Absent, None, Num(5),
             Dict(<<<<K_AWS, None>>>>),
             Dict(<<<<K_Service, Str(Star)>>>>),
             Dict(<<<<Star, Str(Account)>>>>),
             Dict(<<<<K_Service, Str(Account)>>, <<K_AWS, Str(Star)>>>>) }

(* Values of one operator key of a Condition *)
OperatorValues ==
    { Absent,
      Dict(<<<<K_PrincipalOrgID, Str(OrgId)>>>>),
      Dict(<<<<K_SourceIp, Str(Account)>>>>),
      Str(K_PrincipalOrgID) }

(* Values of a statement's Condition field *)
Conditions ==
    { MkDict(<<<<K_StringEquals, se>>, <<K_ForAllValues, fall>>, <<K_ForAnyValue, fany>>>>) :
          se \in OperatorValues, fall \in OperatorValues, fany \in OperatorValues }
      \cup { Absent, None, Num(5),
             Str(K_StringEquals), Str(K_ForAnyValue), Str(K_SourceIp),
             List(<<Str(K_StringEquals)>>), List(<<Str(K_SourceIp)>>),
             Dict(<<<<K_StringLike, Dict(<<<<K_PrincipalOrgID, Str(OrgId)>>>>)>>>>) }

MkStatement(principal, condition) ==
    MkDict(<<<<K_Effect, Str(<<"A">>)>>, <<K_Principal, principal>>, <<K_Condition, condition>>>>)

QualifyingCondition == Dict(<<<<K_StringEquals, Dict(<<<<K_PrincipalOrgID, Str(OrgId)>>>>)>>>>)

OtherCondition == Dict(<<<<K_StringEquals, Dict(<<<<K_SourceIp, Str(Account)>>>>)>>>>)

(* Statements: every Principal under three conditions, and two wildcard    *)
(* principals under every Condition                                         *)
Statements ==
    {MkStatement(p, c) : p \in Principals, c \in {Absent, QualifyingCondition, OtherCondition}}
      \cup {MkStatement(p, c) :
               p \in {Str(Star), Dict(<<<<K_AWS, List(<<Str(Account), Str(Star)>>)>>>>)},
               c \in Conditions}

(* Elements of the Statement lists of more than one element *)
CoreStatements ==
    { MkStatement(Absent, Absent),
      MkStatement(Str(Account), Absent),
      MkStatement(Str(Star), QualifyingCondition),
      MkStatement(Str(RoleGlob), Absent),
      MkStatement(List(<<Str(Account), Str(Star)>>), Absent),
      MkStatement(Dict(<<<<K_AWS, List(<<Str(Star), Str(Star)>>)>>>>), OtherCondition),
      Str(Star) }

MkPolicy(statement) == Dict(<<<<K_Version, Str(<<"1">>)>>, <<K_Statement, statement>>>>)

(* Policy documents of one statement, documents without a Statement list, *)
(* and values that are no policy document                                  *)
SingleDocuments ==
    {MkPolicy(List(<<s>>)) : s \in Statements}
      \cup { MkPolicy(MkStatement(Str(Star), Absent)),
             MkPolicy(Str(Star)),
             MkPolicy(None),
             MkPolicy(List(<<>>)),
             Dict(<<<<K_Version, Str(<<"1">>)>>>>),
             List(<<MkStatement(Str(Star), Absent)>>),
             Str(Star),
             Num(5),
             Bool(TRUE) }

(* Policy documents of up to MaxStatements statements *)
MultiDocuments == {MkPolicy(List(q)) : q \in SeqsUpTo(CoreStatements, MaxStatements)}

(* The documents of several statements that are also given as JSON text *)
EncodedMultiDocuments ==
    {MkPolicy(List(q)) :
        q \in SeqsUpTo({MkStatement(Str(RoleGlob), QualifyingCondition),
                        MkStatement(List(<<Str(Account), Str(Star)>>), Absent)},
                       MaxStatements)}

PolicyDocuments == SingleDocuments \cup MultiDocuments

(* Strings that are not JSON and start with a serverless variable ${...} *)
VariableTexts ==
    { <<"$","{","s","e","l","f",":","c","u","s","t","o","m",".","p","o","l","i","c","y","}">>,
      <<"$","{","a","}"," ","x">> }

(* Strings that are not JSON and do not start with a serverless variable *)
BrokenTexts ==
    { <<"$","{","}">>,
      <<"$","{","a","{","b","}","}">>,
      <<"x","$","{","a","}">>,
      <<"{","n","o","t"," ","v","a","l","i","d"," ","j","s","o","n">>,
      <<"{","\"","S","t","a","t","e","m","e","n","t","\"",":"," ","[","{","}",",","]","}">>,
      <<"0","1">>,
      <<" ">> }

MalformedTexts == VariableTexts \cup BrokenTexts

(* Values of Properties.RepositoryPolicyText *)
PolicyTexts ==
    PolicyDocuments
      \cup {Str(Dumps(d)) : d \in SingleDocuments \cup EncodedMultiDocuments}
      \cup {Str(t) : t \in MalformedTexts}
      \cup {Str(<<" ">> \o Dumps(MkPolicy(List(<<MkStatement(Str(Star), Absent)>>))) \o <<" ">>)}
      \cup {Absent, None, Str(<<>>), Num(0), Bool(FALSE), List(<<>>), Dict(<<>>)}

(* Wrap a value of RepositoryPolicyText into a resource configuration *)
ConfOf(policy_text) ==
    Dict(<<<<K_Properties, MkDict(<<<<K_Version, Str(<<"1">>)>>,
                                    <<K_RepositoryPolicyText, policy_text>>>>)>>>>)

(* Resource configurations *)
Confs ==
    {ConfOf(pt) : pt \in PolicyTexts}
      \cup { Dict(<<>>),
             Dict(<<<<K_Properties, None>>>>),
             Dict(<<<<K_Properties, Dict(<<>>)>>>>),
             Dict(<<<<K_Properties, Str(Star)>>>>),
             Dict(<<<<K_Properties, List(<<MkPolicy(List(<<MkStatement(Str(Star), Absent)>>))>>)>>>>) }

---------------------------------------------------------------------------
(* The instance `check` and its callers *)

Threads == {1, 2}

NoConf == Dict(<<>>)

Pending == [exc |-> "pending", ret |-> FALSE]

(* check = ECRPolicy(): no call is running; the base initialiser leaves    *)
(* evaluated_keys empty                                                    *)
Init ==
    /\ evaluated_keys = <<>>
    /\ pc = [t \in Threads |-> "idle"]
    /\ conf = [t \in Threads |-> NoConf]
    /\ result = [t \in Threads |-> "NONE"]
    /\ log = [t \in Threads |-> <<>>]
    /\ prev_result = [t \in Threads |-> "NONE"]
    /\ cond_arg = NoConf
    /\ cond_ret = Pending

(* Caller t invokes check.scan_resource_conf(c) *)
Call(t, c) ==
    /\ pc[t] = "idle"
    /\ pc' = [pc EXCEPT ![t] = "called"]
    /\ conf' = [conf EXCEPT ![t] = c]
    /\ result' = [result EXCEPT ![t] = "NONE"]
    /\ log' = [log EXCEPT ![t] = <<>>]
    /\ prev_result' = [prev_result EXCEPT ![t] = result[t]]
    /\ UNCHANGED <<evaluated_keys, cond_arg, cond_ret>>

(* The whole of scan_resource_conf, run without interruption *)
Scan(t) ==
    /\ pc[t] = "called"
    /\ LET o == scan_resource_conf(conf[t], evaluated_keys)
       IN  /\ evaluated_keys' = o.keys
           /\ result' = [result EXCEPT ![t] = o.verdict]
           /\ log' = [log EXCEPT ![t] = o.log]
    /\ pc' = [pc EXCEPT ![t] = "idle"]
    /\ UNCHANGED <<conf, prev_result, cond_arg, cond_ret>>

(* One caller at a time *)
Next ==
    \/ \E c \in Confs : Call(1, c)
    \/ Scan(1)

Spec == Init /\ [][Next]_vars

---------------------------------------------------------------------------
(* Two callers on the shared instance: line 28 and lines 29-63 of a call   *)
(* are separate steps, the only accesses to check.evaluated_keys.          *)

ConcConfs ==
    { ConfOf(Absent),
      ConfOf(Str(<<"{","n","o","t"," ","v","a","l","i","d"," ","j","s","o","n">>)),
      ConfOf(MkPolicy(List(<<MkStatement(Str(Account), Absent)>>))),
      ConfOf(MkPolicy(List(<<MkStatement(Str(Star), QualifyingCondition)>>))),
      ConfOf(MkPolicy(List(<<MkStatement(Str(Star), Absent)>>))),
      ConfOf(MkPolicy(List(<<MkStatement(Dict(<<<<K_AWS, List(<<Str(Account), Str(Star)>>)>>>>),
                                         Absent)>>))),
      ConfOf(MkPolicy(List(<<MkStatement(None, Absent)>>))) }

(* Line 28 of the call of caller t *)
Line28(t) ==
    /\ pc[t] = "called"
    /\ evaluated_keys' = reset_evaluated_keys(evaluated_keys)
    /\ pc' = [pc EXCEPT ![t] = "scanning"]
    /\ UNCHANGED <<conf, result, log, prev_result, cond_arg, cond_ret>>

(* Lines 29-63 of the call of caller t, up to its return or raise *)
Body(t) ==
    /\ pc[t] = "scanning"
    /\ LET o == scan_body(conf[t], evaluated_keys)
       IN  /\ evaluated_keys' = o.keys
           /\ result' = [result EXCEPT ![t] = o.verdict]
           /\ log' = [log EXCEPT ![t] = o.log]
    /\ pc' = [pc EXCEPT ![t] = "idle"]
    /\ UNCHANGED <<conf, prev_result, cond_arg, cond_ret>>

NextConc ==
    \E t \in Threads :
        \/ \E c \in ConcConfs : Call(t, c)
        \/ Line28(t)
        \/ Body(t)

SpecConc == Init /\ [][NextConc]_vars

---------------------------------------------------------------------------
(* check_for_constrained_condition called on a statement, which is then    *)
(* scanned as the only statement of a policy.                              *)

CondStatements ==
    {MkStatement(p, c) :
        p \in {Absent, Str(Star), Dict(<<<<K_AWS, List(<<Str(Account), Str(Star)>>)>>>>)},
        c \in Conditions}

InitCond ==
    /\ evaluated_keys = <<>>
    /\ pc = [t \in Threads |-> "idle"]
    /\ conf = [t \in Threads |-> NoConf]
    /\ result = [t \in Threads |-> "NONE"]
    /\ log = [t \in Threads |-> <<>>]
    /\ prev_result = [t \in Threads |-> "NONE"]
    /\ cond_arg \in CondStatements
    /\ cond_ret = Pending

(* check.check_for_constrained_condition(cond_arg) *)
CheckCondition ==
    /\ cond_ret = Pending
    /\ cond_ret' = check_for_constrained_condition(cond_arg)
    /\ UNCHANGED <<evaluated_keys, pc, conf, result, log, prev_result, cond_arg>>

(* check.scan_resource_conf on the policy whose one statement is cond_arg *)
CallOnStatement ==
    /\ cond_ret # Pending
    /\ result[1] = "NONE"
    /\ Call(1, ConfOf(MkPolicy(List(<<cond_arg>>))))

NextCond ==
    \/ CheckCondition
    \/ CallOnStatement
    \/ Scan(1)

SpecCond == InitCond /\ [][NextCond]_vars

---------------------------------------------------------------------------
(* What the claims speak of: the parts of a configuration, the entries of  *)
(* a principal block, the qualifying condition and the reported paths.     *)

(* The call of caller t is over: it returned a CheckResult or raised *)
Done(t) == pc[t] = "idle" /\ result[t] # "NONE"

(* The call of caller t returned a CheckResult *)
Returned(t) == Done(t) /\ result[t] # RAISED

PropertiesOf(c) == DictGet(c, K_Properties)

PolicyTextOf(c) ==
    IF IsDict(PropertiesOf(c)) THEN DictGet(PropertiesOf(c), K_RepositoryPolicyText) ELSE None

(* Absent or empty: None, "", [] or {} *)
IsEmpty(x) == Kind(x) = "none" \/ (Kind(x) \in {"str", "list", "dict"} /\ Len(Val(x)) = 0)

(* The policy text is a structured value, or a string that is JSON *)
HasWorkingDocument(c) ==
    /\ Truthy(PolicyTextOf(c))
    /\ IsStr(PolicyTextOf(c)) => json_loads(Val(PolicyTextOf(c))).ok

WorkingDocument(c) ==
    IF IsStr(PolicyTextOf(c)) THEN json_loads(Val(PolicyTextOf(c))).val ELSE PolicyTextOf(c)

HasStatementList(c) ==
    /\ HasWorkingDocument(c)
    /\ IsDict(WorkingDocument(c))
    /\ HasKey(WorkingDocument(c), K_Statement)
    /\ IsList(GetItem(WorkingDocument(c), K_Statement))

StatementList(c) ==
    IF HasStatementList(c) THEN Val(GetItem(WorkingDocument(c), K_Statement)) ELSE <<>>

HasPrincipal(statement) == IsDict(statement) /\ HasKey(statement, K_Principal)

HasAWS(statement) ==
    IsDict(GetItem(statement, K_Principal)) /\ HasKey(GetItem(statement, K_Principal), K_AWS)

BlockOf(statement) ==
    IF HasAWS(statement) THEN GetItem(GetItem(statement, K_Principal), K_AWS)
    ELSE GetItem(statement, K_Principal)

(* The entries of a principal block: a bare string is its one entry *)
EntriesOf(block) == IF IsStr(block) THEN <<block>> ELSE Items(block)

WildcardEntries(statement) ==
    {j \in 1..Len(EntriesOf(BlockOf(statement))) : EntriesOf(BlockOf(statement))[j] = Str(Star)}

HasWildcardEntry(statement) == HasPrincipal(statement) /\ WildcardEntries(statement) # {}

(* The positions at which the loop over the principal block meets "*" *)
WildcardItems(statement) ==
    {j \in 1..Len(Items(BlockOf(statement))) : Items(BlockOf(statement))[j] = Str(Star)}

Least(S) == CHOOSE n \in S : \A m \in S : n <= m

OperatorOrder == <<K_StringEquals, K_ForAllValues, K_ForAnyValue>>

PresentOperators(condition) == {n \in 1..3 : HasKey(condition, OperatorOrder[n])}

(* The Condition's first-present operator key maps to a mapping with aws:PrincipalOrgID *)
Qualifies(statement) ==
    /\ HasKey(statement, K_Condition)
    /\ IsDict(GetItem(statement, K_Condition))
    /\ PresentOperators(GetItem(statement, K_Condition)) # {}
    /\ LET condition == GetItem(statement, K_Condition)
           value == GetItem(condition, OperatorOrder[Least(PresentOperators(condition))])
       IN  IsDict(value) /\ HasKey(value, K_PrincipalOrgID)

(* check_for_constrained_condition(statement) is false *)
LacksConstraint(statement) ==
    /\ check_for_constrained_condition(statement).exc = NoExc
    /\ ~check_for_constrained_condition(statement).ret

IndexText == <<"0", "1", "2", "3", "4", "5", "6", "7", "8", "9">>

(* Statement/[i]/Principal[/AWS][/[j]/], i and j counted from 0 *)
ExpectedPath(i, aws, indexed, j) ==
    "Properties/RepositoryPolicyText/Statement/[" \o IndexText[i + 1] \o "]/Principal"
        \o (IF aws THEN "/AWS" ELSE "")
        \o (IF indexed THEN "/[" \o IndexText[j + 1] \o "]/" ELSE "")

ExpectedDefault == <<"Properties/RepositoryPolicyText/Statement">>

---------------------------------------------------------------------------
(* Claims *)

(* C1: whenever scan_resource_conf returns a verdict, the verdict is       *)
(* FAILED if and only if the working policy document has a Statement list  *)
(* in which some statement has a principal entry equal to "*" and          *)
(* check_for_constrained_condition is false for that statement.            *)
C1_FailedIffUnconstrainedWildcard ==
    Returned(1) =>
        ( result[1] = FAILED
            <=> \E i \in 1..Len(StatementList(conf[1])) :
                    /\ HasWildcardEntry(StatementList(conf[1])[i])
                    /\ LacksConstraint(StatementList(conf[1])[i]) )

(* C2: every call of scan_resource_conf ends by returning PASSED, FAILED   *)
(* or UNKNOWN; none raises.                                                *)
C2_NeverRaises == Done(1) => result[1] \in {PASSED, FAILED, UNKNOWN}

(* C3: a non-empty RepositoryPolicyText string that is not JSON gives      *)
(* UNKNOWN with the default evaluated keys and exactly one log record:     *)
(* informational when the string starts with a serverless variable,        *)
(* error-level otherwise.                                                  *)
C3_DecodeErrorIsUnknown ==
    ( /\ Done(1)
      /\ IsStr(PolicyTextOf(conf[1]))
      /\ \/ Val(PolicyTextOf(conf[1])) \in MalformedTexts
         \/ Truthy(PolicyTextOf(conf[1])) /\ ~json_loads(Val(PolicyTextOf(conf[1]))).ok )
    => /\ result[1] = UNKNOWN
       /\ evaluated_keys = ExpectedDefault
       /\ log[1] = IF Val(PolicyTextOf(conf[1])) \in VariableTexts
                   THEN <<"INFO">> ELSE <<"ERROR">>

C3_Witness ==
    /\ Done(1)
    /\ PolicyTextOf(conf[1]) =
         Str(<<"$","{","s","e","l","f",":","c","u","s","t","o","m",".","p","o","l","i","c","y","}">>)
    /\ result[1] = UNKNOWN
    /\ log[1] = <<"INFO">>

(* C4: when Properties is absent or no mapping, or RepositoryPolicyText is *)
(* absent or empty, or the working policy document is a mapping without a  *)
(* Statement list (a Statement that is a single mapping included), the     *)
(* verdict is PASSED with the default evaluated keys; and a FAILED verdict *)
(* always reports a statement that has a Principal field.                  *)
C4_MissingDataPasses ==
    Done(1) =>
        /\ ( \/ ~IsDict(PropertiesOf(conf[1]))
             \/ IsEmpty(PolicyTextOf(conf[1]))
             \/ /\ HasWorkingDocument(conf[1])
                /\ IsDict(WorkingDocument(conf[1]))
                /\ ~HasStatementList(conf[1]) )
           => result[1] = PASSED /\ evaluated_keys = ExpectedDefault
        /\ result[1] = FAILED =>
              \E i \in 1..Len(StatementList(conf[1])) :
                  /\ HasPrincipal(StatementList(conf[1])[i])
                  /\ \E a \in BOOLEAN, x \in BOOLEAN, j \in 0..9 :
                        evaluated_keys = <<ExpectedPath(i - 1, a, x, j)>>

C4_Witness ==
    /\ Done(1)
    /\ HasWorkingDocument(conf[1])
    /\ IsDict(WorkingDocument(conf[1]))
    /\ HasKey(WorkingDocument(conf[1]), K_Statement)
    /\ HasWildcardEntry(GetItem(WorkingDocument(conf[1]), K_Statement))
    /\ result[1] = PASSED

(* C5: a statement whose principal block is a bare string can trigger      *)
(* FAILED only when the whole string equals "*".                           *)
C5_BareStringIsOneEntry ==
    ( /\ Done(1)
      /\ result[1] = FAILED
      /\ \A i \in 1..Len(StatementList(conf[1])) :
            /\ HasPrincipal(StatementList(conf[1])[i])
            /\ IsStr(BlockOf(StatementList(conf[1])[i])) )
    => \E i \in 1..Len(StatementList(conf[1])) :
           BlockOf(StatementList(conf[1])[i]) = Str(Star)

(* C6: with two callers on the shared instance, when a call returns, the   *)
(* instance holds the evaluated keys of that call.                         *)
C6_OwnKeysAtReturn ==
    [][\A t \in Threads :
          (pc[t] = "scanning" /\ pc'[t] = "idle" /\ result'[t] # RAISED)
              => evaluated_keys' = scan_resource_conf(conf[t], <<>>).keys]_vars

(* C7: after any sequence of earlier calls, a call leaves the verdict and  *)
(* the evaluated keys that the same call leaves on a fresh instance; a     *)
(* PASSED or UNKNOWN verdict comes with the default key.                   *)
C7_SameAsOnFreshInstance ==
    Done(1) =>
        /\ result[1] = scan_resource_conf(conf[1], <<>>).verdict
        /\ evaluated_keys = scan_resource_conf(conf[1], <<>>).keys
        /\ result[1] \in {PASSED, UNKNOWN} => evaluated_keys = ExpectedDefault

C7_Witness ==
    /\ Done(1)
    /\ prev_result[1] = FAILED
    /\ result[1] \in {PASSED, UNKNOWN}
    /\ evaluated_keys = ExpectedDefault

(* A statement the scan passes over: no Principal, or a string or list     *)
(* block with no wildcard entry or with a qualifying condition             *)
SafeStatement(statement) ==
    /\ IsDict(statement)
    /\ HasKey(statement, K_Principal) =>
          /\ Kind(BlockOf(statement)) \in {"str", "list"}
          /\ WildcardEntries(statement) # {} => Qualifies(statement)

(* A statement with a wildcard entry and a Condition, if any, that is a    *)
(* mapping and does not qualify                                            *)
ViolatingStatement(statement) ==
    /\ HasPrincipal(statement)
    /\ Kind(BlockOf(statement)) \in {"str", "list"}
    /\ WildcardEntries(statement) # {}
    /\ HasKey(statement, K_Condition) => IsDict(GetItem(statement, K_Condition))
    /\ ~Qualifies(statement)

(* C8: the verdict is FAILED with the key of the first wildcard entry of   *)
(* the first violating statement, whatever follows it, when the statements *)
(* before it are safe.                                                     *)
C8_FirstFailureReported ==
    Done(1) =>
        \A i \in 1..Len(StatementList(conf[1])) :
            ( /\ \A k \in 1..(i - 1) : SafeStatement(StatementList(conf[1])[k])
              /\ ViolatingStatement(StatementList(conf[1])[i]) )
            => /\ result[1] = FAILED
               /\ evaluated_keys =
                    <<ExpectedPath(i - 1,
                                   HasAWS(StatementList(conf[1])[i]),
                                   IsList(BlockOf(StatementList(conf[1])[i])),
                                   Least(WildcardEntries(StatementList(conf[1])[i])) - 1)>>

(* C9: check_for_constrained_condition(statement) is true exactly when the *)
(* Condition's first-present key among StringEquals,                       *)
(* ForAllValues:StringEquals, ForAnyValue:StringEquals maps to a mapping   *)
(* with aws:PrincipalOrgID; a wildcard principal whose StringEquals lacks  *)
(* aws:PrincipalOrgID gives FAILED.                                        *)
C9_FirstPresentOperatorDecides ==
    /\ cond_ret.exc = NoExc => (cond_ret.ret <=> Qualifies(cond_arg))
    /\ ( /\ Done(1)
         /\ HasWildcardEntry(cond_arg)
         /\ HasKey(cond_arg, K_Condition)
         /\ IsDict(GetItem(cond_arg, K_Condition))
         /\ HasKey(GetItem(cond_arg, K_Condition), K_StringEquals)
         /\ ~In(K_PrincipalOrgID, GetItem(GetItem(cond_arg, K_Condition), K_StringEquals)) )
       => result[1] = FAILED

C9_Witness ==
    /\ Done(1)
    /\ cond_ret = Returns(FALSE)
    /\ HasWildcardEntry(cond_arg)
    /\ HasKey(cond_arg, K_Condition)
    /\ GetItem(cond_arg, K_Condition) =
         Dict(<<<<K_StringEquals, Dict(<<<<K_SourceIp, Str(Account)>>>>)>>,
                <<K_ForAllValues, Dict(<<<<K_PrincipalOrgID, Str(OrgId)>>>>)>>>>)
    /\ result[1] = FAILED

(* The statements at which the loop over Statement fails: the block's      *)
(* items include "*" and check_for_constrained_condition is false          *)
FailingStatements(c) ==
    {i \in 1..Len(StatementList(c)) :
        /\ HasPrincipal(StatementList(c)[i])
        /\ WildcardItems(StatementList(c)[i]) # {}
        /\ LacksConstraint(StatementList(c)[i])}

(* C10: after a call that returns, evaluated_keys is one path: the default *)
(* for PASSED and UNKNOWN; for FAILED at statement i and principal j,      *)
(* Statement/[i]/Principal, then /AWS exactly when Principal is a mapping  *)
(* with the key AWS, then /[j]/ exactly when the principal block is a list. *)
C10_EvaluatedKeysShape ==
    Returned(1) =>
        /\ Len(evaluated_keys) = 1
        /\ result[1] \in {PASSED, UNKNOWN} => evaluated_keys = ExpectedDefault
        /\ result[1] = FAILED =>
              /\ FailingStatements(conf[1]) # {}
              /\ LET i == Least(FailingStatements(conf[1]))
                     statement == StatementList(conf[1])[i]
                 IN  evaluated_keys =
                        <<ExpectedPath(i - 1, HasAWS(statement), IsList(BlockOf(statement)),
                                       Least(WildcardItems(statement)) - 1)>>

C10_Witness ==
    /\ Returned(1)
    /\ result[1] = FAILED
    /\ evaluated_keys = <<"Properties/RepositoryPolicyText/Statement/[1]/Principal/AWS/[0]/">>

====
